---- MODULE Spec2Model ----
(***************************************************************************)
(* A model of fcitx-utils' logging core (src/lib/fcitx-utils/log.cpp):     *)
(* LogCategory, the LogRegistry singleton, the rule parser Log::setLogRule, *)
(* the per-thread synchronized writer behind Log::logStream and the scoped  *)
(* LogMessageBuilder.                                                       *)
(*                                                                          *)
(* The specifications share the variables:                                 *)
(*   Spec          the registry: categories are constructed and destroyed, *)
(*                 levels are set, rule lists and rule strings installed;  *)
(*   SpecCategory  the methods of LogCategory on every level and integer;  *)
(*   SpecParse     Log::setLogRule on rule strings drawn from a bounded    *)
(*                 set;                                                     *)
(*   SpecLog       threads issuing log statements while the process-wide   *)
(*                 destination is swapped;                                  *)
(*   SpecNested    SpecLog with a statement issued inside a statement;     *)
(*   SpecScenario  rule strings naming the category "net";                 *)
(*   SpecFormat    one thread's statements of every level, with and        *)
(*                 without the timestamp;                                   *)
(*   SpecRegistry  Spec with registerCategory and unregisterCategory       *)
(*                 called on their own;                                     *)
(*   SpecCalls     threads inside the registry's member functions, step by *)
(*                 step under mutex_; SpecCallsFair adds their scheduling, *)
(*                 SpecRace a caller of checkLogLevel that takes no lock.  *)
(***************************************************************************)
EXTENDS Integers, Sequences, FiniteSets

VARIABLES
    live,             \* [Cats -> BOOLEAN]: the LogCategory object exists
    name_,            \* LogCategoryPrivate::name_
    level_,           \* LogCategoryPrivate::level_
    defaultLevel_,    \* LogCategoryPrivate::defaultLevel_
    categories_,      \* LogRegistry::categories_
    rules_,           \* LogRegistry::rules_
    showTimeDate,     \* LogConfig::showTimeDate
    aborted,          \* std::abort() was called: the process is gone
    ctorLevel,        \* history: the level each live category was constructed with
    last,             \* the call that returned last, with its arguments and result
    ruleString,       \* SpecParse: the argument of Log::setLogRule
    defaultLogStream, \* LogConfig::defaultLogStream
    tlsInit,          \* [Threads -> BOOLEAN]: the thread's localLogStream is initialized
    wrapped,          \* localLogStream.get_wrapped(), per thread
    emitOnSync,       \* the emit-on-sync flag of the thread's syncbuf
    pending,          \* the bytes the thread's syncbuf holds back
    dest,             \* [Bufs -> Seq]: what every destination buffer has received
    pc,               \* where each thread is in its log statement
    buf,              \* the local `buf` of Log::logStream(), per thread
    stmt,             \* the statement each thread is in: its number, level, timestamp outcome
    written,          \* history: the tokens each statement wrote, in order
    during,           \* history: the destinations current during each statement's logStream() call
    emittedTo,        \* history: the buffers each statement's bytes were delivered to
    nswaps,           \* the number of Log::setLogStream calls made
    mutex_,           \* LogRegistry::mutex_: the thread that holds it
    call              \* the registry call each thread is in, and where it is in it

catVars == <<live, name_, level_, defaultLevel_, categories_, rules_, showTimeDate, aborted>>
logVars == <<defaultLogStream, tlsInit, wrapped, emitOnSync, pending, dest, pc, buf, stmt,
             written, during, emittedTo, nswaps>>
lockVars == <<mutex_, call>>
vars == <<catVars, ctorLevel, last, ruleString, lockVars, logVars>>

----------------------------------------------------------------------------
(* LogLevel (log.h): an ordered enumeration over int.                      *)
NoLog == 0
Fatal == 1
Error == 2
Warn == 3
Info == 4
Debug == 5
LastLogLevel == Debug
LogLevels == NoLog..LastLogLevel

(* Bounds of the model. *)
MaxRules == 2     \* the longest rule list handed to setLogRules directly
MaxLen == 5       \* the longest rule string enumerated character by character
MaxStmts == 2     \* log statements per thread
MaxSwaps == 1     \* calls of Log::setLogStream

(* Strings are sequences of characters. *)
Star == <<"*">>
CatX == <<"c", "a", "t", "X">>
Net == <<"n", "e", "t">>
NoName == <<>>

Cats == {"c1", "c2"}                \* LogCategory objects, by identity (address)
Names == {CatX, Net}                \* category names
CtorLevels == {NoLog, Info}         \* levels categories are constructed with
Patterns == {Star, CatX}            \* rule patterns handed to setLogRules
RuleLevels == {Error, Warn}         \* rule levels handed to setLogRules
DirectLevels == {Debug}             \* levels set by LogCategory::setLogLevel(LogLevel)
IntInputs == (0 - 2)..(LastLogLevel + 2)  \* integers handed to setLogLevel(int)

NoCall == [op |-> "none"]

----------------------------------------------------------------------------
(* Faulty variant of validateLogLevel: the upper bound is not tested. *)
validateLogLevelNoUpper(l) == l >= 0

(* validateLogLevel *)
validateLogLevel(l) == l >= 0 /\ l <= LastLogLevel

(* Faulty variant of checkLogLevel: NoLog is not excluded. *)
checkLogLevelInclusive(lvl, l) == l <= lvl

(* Faulty variant of checkLogLevel: the comparison is strict. *)
checkLogLevelStrict(lvl, l) == l # NoLog /\ l < lvl

(* LogCategory::checkLogLevel on a category whose level_ is lvl *)
checkLogLevel(lvl, l) == l # NoLog /\ l <= lvl

(* LogCategory::setLogLevel(std::underlying_type_t<LogLevel>): the level_ it leaves *)
setLogLevelInt(lvl, l) == IF validateLogLevel(l) THEN l ELSE lvl

(* Faulty variant of fatalWrapper: Fatal aborts whether or not it is logged. *)
fatalWrapperAbortsAlways(lvl, l) == l = Fatal

(* LogCategory::fatalWrapper: whether it calls std::abort() *)
fatalWrapperAborts(lvl, l) == l = Fatal /\ ~checkLogLevel(lvl, l)

(* LogCategory::fatalWrapper2: whether it calls std::abort() *)
fatalWrapper2Aborts(l) == l = Fatal

(* Faulty variant of the rule test: the wildcard is not recognized. *)
RuleMatchesNameOnly(rule, nm) == rule[1] = nm

(* The test of LogRegistry::applyRule's loop body *)
RuleMatches(rule, nm) == rule[1] = Star \/ rule[1] = nm

(* Faulty variant of the loop: it stops at the first matching rule. *)
RECURSIVE ApplyLoopFirstMatch(_, _, _)
ApplyLoopFirstMatch(lvl, nm, rules) ==
    IF rules = <<>> THEN lvl
    ELSE IF RuleMatches(Head(rules), nm) THEN Head(rules)[2]
    ELSE ApplyLoopFirstMatch(lvl, nm, Tail(rules))

(* The loop of LogRegistry::applyRule over the rules from the front: lvl is the
   category's level_ so far; setLogLevel(LogLevel) stores rule.second unchecked. *)
RECURSIVE ApplyLoop(_, _, _)
ApplyLoop(lvl, nm, rules) ==
    IF rules = <<>> THEN lvl
    ELSE ApplyLoop(IF RuleMatches(Head(rules), nm) THEN Head(rules)[2] ELSE lvl,
                   nm, Tail(rules))

(* Faulty variant of applyRule: resetLogLevel() is not called. *)
applyRuleNoReset(nm, dflt, cur, rules) == ApplyLoop(cur, nm, rules)

(* LogRegistry::applyRule: the level_ of a category named nm, with defaultLevel_
   dflt and level_ cur, after resetLogLevel() and the loop over rules. *)
applyRule(nm, dflt, cur, rules) == ApplyLoop(dflt, nm, rules)

(* Faulty variant of registerCategory: the rules are applied on every call,
   whether or not the category is inserted. *)
registerCategoryAlwaysApply(c, nm, dflt, cur) ==
    [cats |-> categories_ \cup {c}, lvl |-> applyRule(nm, dflt, cur, rules_)]

(* Faulty variant of registerCategory: the rules are not applied. *)
registerCategoryNoApply(c, nm, dflt, cur) ==
    [cats |-> categories_ \cup {c}, lvl |-> cur]

(* LogRegistry::registerCategory, called with a category whose fields are
   nm, dflt and cur: the new categories_ and the category's level_. *)
registerCategory(c, nm, dflt, cur) ==
    IF c \notin categories_
        THEN [cats |-> categories_ \cup {c}, lvl |-> applyRule(nm, dflt, cur, rules_)]
        ELSE [cats |-> categories_, lvl |-> cur]

(* Faulty variant of unregisterCategory: nothing is erased. *)
unregisterCategoryKeeps(c) == categories_

(* LogRegistry::unregisterCategory *)
unregisterCategory(c) == categories_ \ {c}

(* LogRegistry::setLogRules: the rule list it stores *)
StoredRules(rules) == rules

----------------------------------------------------------------------------
(* stringutils::split(str, delim) for a one-character delimiter: the pieces
   between delimiters, in order, empty pieces skipped. *)
RECURSIVE SplitFrom(_, _, _)
SplitFrom(str, delim, piece) ==
    IF str = <<>> THEN (IF piece = <<>> THEN <<>> ELSE <<piece>>)
    ELSE IF Head(str) = delim
        THEN (IF piece = <<>> THEN <<>> ELSE <<piece>>) \o SplitFrom(Tail(str), delim, <<>>)
        ELSE SplitFrom(Tail(str), delim, Append(piece, Head(str)))

Split(str, delim) == SplitFrom(str, delim, <<>>)

(* std::from_chars(first, last, int &): an optional minus sign and the longest
   run of decimal digits after it. ok is ec == std::errc(); used is how many
   characters the match took (the returned ptr, which the caller ignores). *)
IntMax == 2147483647
DigitChars == {"0", "1", "2", "3", "4", "5", "6", "7", "8", "9"}
DigitVal(ch) ==
    CASE ch = "0" -> 0 [] ch = "1" -> 1 [] ch = "2" -> 2 [] ch = "3" -> 3 [] ch = "4" -> 4
      [] ch = "5" -> 5 [] ch = "6" -> 6 [] ch = "7" -> 7 [] ch = "8" -> 8 [] ch = "9" -> 9

RECURSIVE DigitRun(_)
DigitRun(str) ==
    IF str # <<>> /\ Head(str) \in DigitChars THEN <<Head(str)>> \o DigitRun(Tail(str))
    ELSE <<>>

(* The value of a digit run as from_chars accumulates it, kept as its negation
   so that INT_MIN is representable: 1 stands for a value outside int. *)
RECURSIVE NegDigitsValue(_, _, _)
NegDigitsValue(digits, nacc, neg) ==
    IF digits = <<>> \/ nacc = 1 THEN nacc
    ELSE LET d == DigitVal(Head(digits))
             lastMax == (IntMax % 10) + (IF neg THEN 1 ELSE 0)
         IN  IF nacc < 0 - (IntMax \div 10) \/ (nacc = 0 - (IntMax \div 10) /\ d > lastMax)
                 THEN 1
                 ELSE NegDigitsValue(Tail(digits), 10 * nacc - d, neg)

from_chars(str) ==
    LET neg == str # <<>> /\ Head(str) = "-"
        run == DigitRun(IF neg THEN Tail(str) ELSE str)
        nval == NegDigitsValue(run, 0, neg)
        used == Len(run) + (IF neg THEN 1 ELSE 0)
    IN  IF run = <<>> THEN [ok |-> FALSE, value |-> 0, used |-> 0]
        ELSE IF nval = 1 THEN [ok |-> FALSE, value |-> 0, used |-> used]
        ELSE [ok |-> TRUE, value |-> IF neg THEN nval ELSE 0 - nval, used |-> used]

(* Log::setLogRule, the loop over the tokens: what one token adds to parsedRules,
   and whether it is the notimedate token. *)
Notimedate == <<"n", "o", "t", "i", "m", "e", "d", "a", "t", "e">>

ParseToken(rule) ==
    IF rule = Notimedate THEN <<>>
    ELSE LET ruleItem == Split(rule, "=")
         IN  IF Len(ruleItem) # 2 THEN <<>>
             ELSE LET fc == from_chars(ruleItem[2])
                  IN  IF fc.ok /\ validateLogLevel(fc.value)
                          THEN <<  <<ruleItem[1], fc.value>>  >>
                          ELSE <<>>

RECURSIVE ParseTokens(_)
ParseTokens(tokens) ==
    IF tokens = <<>> THEN <<>>
    ELSE ParseToken(Head(tokens)) \o ParseTokens(Tail(tokens))

(* parsedRules at the end of Log::setLogRule(str) *)
parsedRules(str) == ParseTokens(Split(str, ","))

(* Faulty variant: the flag is assigned on every call, true when the string
   has no notimedate token. *)
showTimeDateAfterAssigned(str) ==
    ~(\E i \in 1..Len(Split(str, ",")) : Split(str, ",")[i] = Notimedate)

(* LogConfig::showTimeDate at the end of Log::setLogRule(str) *)
showTimeDateAfter(str) ==
    IF \E i \in 1..Len(Split(str, ",")) : Split(str, ",")[i] = Notimedate
        THEN FALSE
        ELSE showTimeDate

----------------------------------------------------------------------------
(* The sink's state before any thread has logged (filled in by SpecLog). *)
Threads == {"t1", "t2"}
Streams == {"cerr", "s1"}     \* std::ostream objects; each has a buffer of its own
NoBuf == "none"
rdbuf(stream) == stream       \* the identity of the stream's buffer
StmtIds == Threads \X (1..MaxStmts)

LogInit ==
    /\ defaultLogStream = "cerr"
    /\ tlsInit = [t \in Threads |-> FALSE]
    /\ wrapped = [t \in Threads |-> NoBuf]
    /\ emitOnSync = [t \in Threads |-> FALSE]
    /\ pending = [t \in Threads |-> <<>>]
    /\ dest = [b \in Streams |-> <<>>]
    /\ pc = [t \in Threads |-> "idle"]
    /\ buf = [t \in Threads |-> NoBuf]
    /\ stmt = [t \in Threads |-> [n |-> 0, level |-> NoLog, time |-> FALSE]]
    /\ written = [s \in StmtIds |-> <<>>]
    /\ during = [s \in StmtIds |-> {}]
    /\ emittedTo = [s \in StmtIds |-> {}]
    /\ nswaps = 0

(* The registry's mutex before any call: nobody holds it, no thread is in a
   registry call. *)
NoOwner == "free"
Idle == [op |-> "none", pc |-> "idle"]

LockInit ==
    /\ mutex_ = NoOwner
    /\ call = [t \in Threads |-> Idle]

(* The registry before any category is constructed.  A LogCategory object that
   does not exist has no fields: they are held at fixed values. *)
CatInit ==
    /\ live = [c \in Cats |-> FALSE]
    /\ name_ = [c \in Cats |-> NoName]
    /\ level_ = [c \in Cats |-> NoLog]
    /\ defaultLevel_ = [c \in Cats |-> NoLog]
    /\ categories_ = {}
    /\ rules_ = <<>>
    /\ showTimeDate = TRUE
    /\ aborted = FALSE
    /\ ctorLevel = [c \in Cats |-> NoLog]

----------------------------------------------------------------------------
(* LogCategory::LogCategory(name, level): the private part is built, then the
   category registers itself. *)
Construct(c, nm, l) ==
    /\ ~aborted
    /\ ~live[c]
    /\ LET reg == registerCategory(c, nm, l, l)
       IN  /\ categories_' = reg.cats
           /\ level_' = [level_ EXCEPT ![c] = reg.lvl]
    /\ live' = [live EXCEPT ![c] = TRUE]
    /\ name_' = [name_ EXCEPT ![c] = nm]
    /\ defaultLevel_' = [defaultLevel_ EXCEPT ![c] = l]
    /\ ctorLevel' = [ctorLevel EXCEPT ![c] = l]
    /\ last' = [op |-> "construct", cat |-> c]
    /\ UNCHANGED <<rules_, showTimeDate, aborted, ruleString, lockVars, logVars>>

(* LogCategory::~LogCategory *)
Destroy(c) ==
    /\ ~aborted
    /\ live[c]
    /\ categories_' = unregisterCategory(c)
    /\ live' = [live EXCEPT ![c] = FALSE]
    /\ name_' = [name_ EXCEPT ![c] = NoName]
    /\ level_' = [level_ EXCEPT ![c] = NoLog]
    /\ defaultLevel_' = [defaultLevel_ EXCEPT ![c] = NoLog]
    /\ ctorLevel' = [ctorLevel EXCEPT ![c] = NoLog]
    /\ last' = [op |-> "destroy"]
    /\ UNCHANGED <<rules_, showTimeDate, aborted, ruleString, lockVars, logVars>>

(* LogCategory::setLogLevel(LogLevel) *)
SetLogLevel(c, l) ==
    /\ ~aborted
    /\ live[c]
    /\ level_' = [level_ EXCEPT ![c] = l]
    /\ last' = [op |-> "setLogLevel"]
    /\ UNCHANGED <<live, name_, defaultLevel_, categories_, rules_, showTimeDate, aborted,
                   ctorLevel, ruleString, lockVars, logVars>>

(* LogCategory::resetLogLevel *)
ResetLogLevel(c) ==
    /\ ~aborted
    /\ live[c]
    /\ level_' = [level_ EXCEPT ![c] = defaultLevel_[c]]
    /\ last' = [op |-> "resetLogLevel"]
    /\ UNCHANGED <<live, name_, defaultLevel_, categories_, rules_, showTimeDate, aborted,
                   ctorLevel, ruleString, lockVars, logVars>>

(* LogRegistry::setLogRules: the rules are stored, then applyRule runs on every
   registered category. *)
setLogRules(rules) ==
    /\ rules_' = StoredRules(rules)
    /\ level_' = [c \in Cats |->
                    IF c \in categories_
                        THEN applyRule(name_[c], defaultLevel_[c], level_[c], rules_')
                        ELSE level_[c]]
    /\ UNCHANGED <<live, name_, defaultLevel_, categories_>>

SetLogRules(rules) ==
    /\ ~aborted
    /\ setLogRules(rules)
    /\ last' = [op |-> "setLogRules", rules |-> rules]
    /\ UNCHANGED <<showTimeDate, aborted, ctorLevel, ruleString, lockVars, logVars>>

(* Log::setLogRule(ruleString) *)
SetLogRule(str) ==
    /\ ~aborted
    /\ showTimeDate' = showTimeDateAfter(str)
    /\ setLogRules(parsedRules(str))
    /\ last' = [op |-> "setLogRule", str |-> str]
    /\ UNCHANGED <<aborted, ctorLevel, ruleString, lockVars, logVars>>

(* The rule lists and rule strings the registry is driven with. *)
RuleLists == UNION {[1..n -> Patterns \X RuleLevels] : n \in 0..MaxRules}

ExampleString == <<"n", "o", "t", "i", "m", "e", "d", "a", "t", "e", ",", "*", "=", "2",
                   ",", "b", "a", "d", "=", "t", "o", "k", "e", "n", ",",
                   "c", "a", "t", "X", "=", "9", "9">>
RuleStrings ==
    { Notimedate,
      <<"b", "a", "d", "=", "t", "o", "k", "e", "n", ",", "c", "a", "t", "X", "=", "9", "9">>,
      <<"c", "a", "t", "X", "=", "3", ",", "*", "=", "2">> }

Init ==
    /\ CatInit
    /\ last = NoCall
    /\ ruleString = <<>>
    /\ LogInit
    /\ LockInit

Next ==
    \/ \E c \in Cats, nm \in Names, l \in CtorLevels : Construct(c, nm, l)
    \/ \E c \in Cats : Destroy(c)
    \/ \E c \in Cats, l \in DirectLevels : SetLogLevel(c, l)
    \/ \E rules \in RuleLists : SetLogRules(rules)
    \/ \E str \in RuleStrings : SetLogRule(str)

Spec == Init /\ [][Next]_vars

----------------------------------------------------------------------------
(* What the specification says a rule list assigns to a category named nm
   with default level dflt: the level of the last rule whose pattern is "*" or
   nm, and dflt when no rule matches. *)
MatchingRules(nm, rules) ==
    {i \in 1..Len(rules) : rules[i][1] = Star \/ rules[i][1] = nm}

LastMatchLevel(nm, dflt, rules) ==
    IF MatchingRules(nm, rules) = {} THEN dflt
    ELSE LET i == CHOOSE k \in MatchingRules(nm, rules) :
                      \A j \in MatchingRules(nm, rules) : j <= k
         IN  rules[i][2]

(* C2: once setRules([("*", L)]) has returned, every registered category has
   currentLevel = L; once setRules([]) has returned, every registered category
   has currentLevel equal to the level it was constructed with, which is still
   its defaultLevel. *)
C2_WildcardAndEmptyRules ==
    /\ \A c \in Cats : live[c] => defaultLevel_[c] = ctorLevel[c]
    /\ last.op = "setLogRules" =>
          /\ \A L \in LogLevels :
                last.rules = << <<Star, L>> >> => \A c \in categories_ : level_[c] = L
          /\ last.rules = <<>> => \A c \in categories_ : level_[c] = ctorLevel[c]

C2_Witness ==
    /\ last.op = "setLogRules"
    /\ last.rules = << <<Star, Warn>> >>
    /\ categories_ = Cats
    /\ \E c \in Cats : defaultLevel_[c] = NoLog
    /\ \E c \in Cats : defaultLevel_[c] = Info

(* C3: after setRules(R), for every rule list R, every registered category has
   the level of the last rule of R whose pattern is "*" or its name, and its
   defaultLevel when no rule matches: last match wins, in list order. *)
C3_LastMatchWins ==
    last.op = "setLogRules" =>
        \A c \in categories_ :
            level_[c] = LastMatchLevel(name_[c], defaultLevel_[c], last.rules)

(* setRules([("*", Warn), ("catX", Error)]) with a "catX" and a "net" category
   registered: the later rule names the more severe level. *)
C3_Witness ==
    /\ last.op = "setLogRules"
    /\ last.rules = << <<Star, Warn>>, <<CatX, Error>> >>
    /\ \E c \in categories_ : name_[c] = CatX /\ level_[c] = Error
    /\ \E c \in categories_ : name_[c] = Net /\ level_[c] = Warn

(* C4: a category constructed while a rule list is active is registered and
   has, when its constructor returns, the level the active rule list assigns
   to its name. *)
C4_RegistrationAppliesRules ==
    last.op = "construct" =>
        /\ last.cat \in categories_
        /\ level_[last.cat] =
              LastMatchLevel(name_[last.cat], defaultLevel_[last.cat], rules_)

(* The rule names "catX" and the category just constructed is the only one
   there is. *)
C4_Witness ==
    /\ last.op = "construct"
    /\ categories_ = {last.cat}
    /\ name_[last.cat] = CatX
    /\ rules_ = << <<CatX, Warn>> >>
    /\ defaultLevel_[last.cat] = Info
    /\ level_[last.cat] = Warn

(* C8: setting rules is not additive.  After setRules(R) the stored list is R,
   and two registered categories with the same name and the same defaultLevel
   have the same currentLevel, whatever was stored or set before; a setLogRule
   call whose tokens are all discarded, or which holds only notimedate, stores
   the empty list and leaves every registered category at its defaultLevel. *)
AllDiscarded ==
    { Notimedate,
      <<"b", "a", "d", "=", "t", "o", "k", "e", "n", ",", "c", "a", "t", "X", "=", "9", "9">> }

C8_RulesReplaced ==
    /\ last.op = "setLogRules" => rules_ = last.rules
    /\ last.op \in {"setLogRules", "setLogRule"} =>
          \A c, d \in categories_ :
              name_[c] = name_[d] /\ defaultLevel_[c] = defaultLevel_[d]
                  => level_[c] = level_[d]
    /\ (last.op = "setLogRule" /\ last.str \in AllDiscarded) =>
          /\ rules_ = <<>>
          /\ \A c \in categories_ : level_[c] = defaultLevel_[c]

C8_Witness ==
    /\ last.op = "setLogRule"
    /\ last.str \in AllDiscarded
    /\ categories_ = Cats
    /\ \A c \in Cats : name_[c] = CatX /\ defaultLevel_[c] = Info

----------------------------------------------------------------------------
(* The methods of LogCategory, called with every level and with integers on
   both sides of [0, LastLogLevel]. *)

(* LogCategory::setLogLevel(std::underlying_type_t<LogLevel>) *)
SetLogLevelInt(c, n) ==
    /\ ~aborted
    /\ live[c]
    /\ level_' = [level_ EXCEPT ![c] = setLogLevelInt(level_[c], n)]
    /\ last' = [op |-> "setLogLevelInt", cat |-> c, arg |-> n, pre |-> catVars]
    /\ UNCHANGED <<live, name_, defaultLevel_, categories_, rules_, showTimeDate, aborted,
                   ctorLevel, ruleString, lockVars, logVars>>

(* LogCategory::checkLogLevel *)
CheckLogLevel(c, l) ==
    /\ ~aborted
    /\ live[c]
    /\ last' = [op |-> "checkLogLevel", cat |-> c, arg |-> l,
                ret |-> checkLogLevel(level_[c], l)]
    /\ UNCHANGED <<catVars, ctorLevel, ruleString, lockVars, logVars>>

(* LogCategory::fatalWrapper: ret is the value returned, when the call returns *)
FatalWrapper(c, l) ==
    /\ ~aborted
    /\ live[c]
    /\ aborted' = fatalWrapperAborts(level_[c], l)
    /\ last' = [op |-> "fatalWrapper", cat |-> c, arg |-> l,
                ret |-> ~aborted' /\ checkLogLevel(level_[c], l)]
    /\ UNCHANGED <<live, name_, level_, defaultLevel_, categories_, rules_, showTimeDate,
                   ctorLevel, ruleString, lockVars, logVars>>

(* LogCategory::fatalWrapper2, a static member: no category is involved *)
FatalWrapper2(l) ==
    /\ ~aborted
    /\ aborted' = fatalWrapper2Aborts(l)
    /\ last' = [op |-> "fatalWrapper2", arg |-> l, ret |-> FALSE]
    /\ UNCHANGED <<live, name_, level_, defaultLevel_, categories_, rules_, showTimeDate,
                   ctorLevel, ruleString, lockVars, logVars>>

(* The first category is constructed with every level, the second one with Warn. *)
CategoryCtorArgs == ({"c1"} \X {CatX} \X LogLevels) \cup {<<"c2", Net, Warn>>}

NextCategory ==
    \/ \E a \in CategoryCtorArgs : Construct(a[1], a[2], a[3])
    \/ \E c \in Cats : Destroy(c)
    \/ \E c \in Cats : ResetLogLevel(c)
    \/ \E c \in Cats, n \in IntInputs : SetLogLevelInt(c, n)
    \/ \E c \in Cats, l \in LogLevels : CheckLogLevel(c, l)
    \/ \E c \in Cats, l \in LogLevels : FatalWrapper(c, l)
    \/ \E l \in LogLevels : FatalWrapper2(l)

SpecCategory == Init /\ [][NextCategory]_vars

(* C5: checkLevel(requested) is true exactly when requested is one of the
   levels from Fatal up to currentLevel; so it is false for NoLog whatever the
   current level is, and false for every level when currentLevel is NoLog. *)
C5_CheckLevel ==
    last.op = "checkLogLevel" =>
        /\ last.ret <=> last.arg \in (NoLog + 1)..level_[last.cat]
        /\ last.arg = NoLog => ~last.ret
        /\ level_[last.cat] = NoLog => ~last.ret

C5_Witness ==
    /\ last.op = "checkLogLevel"
    /\ last.arg = Warn
    /\ level_[last.cat] = Warn
    /\ last.ret

(* C6: setLevel(cat, n) with n outside [0, LastLogLevel] changes nothing, and
   with n inside the range sets cat's currentLevel to n and nothing else. *)
C6_SetLevelInt ==
    last.op = "setLogLevelInt" =>
        IF last.arg < 0 \/ last.arg > LastLogLevel
            THEN catVars = last.pre
            ELSE /\ level_[last.cat] = last.arg
                 /\ \A c \in Cats \ {last.cat} : level_[c] = last.pre[3][c]
                 /\ <<live, name_, defaultLevel_, categories_, rules_, showTimeDate, aborted>>
                      = <<last.pre[1], last.pre[2], last.pre[4], last.pre[5], last.pre[6],
                          last.pre[7], last.pre[8]>>

C6_Witness ==
    /\ last.op = "setLogLevelInt"
    /\ last.arg = LastLogLevel + 1
    /\ level_[last.cat] = Error
    /\ Cardinality(categories_) = 2

(* C9: fatalAdmission(requested) aborts exactly when requested is Fatal and
   checkLevel(Fatal) is false, and otherwise returns checkLevel(requested); the
   companion entry point aborts exactly when requested is Fatal and otherwise
   returns false.  Nothing else aborts the process. *)
C9_FatalNeverDropped ==
    /\ last.op = "fatalWrapper" =>
          /\ aborted <=> (last.arg = Fatal /\ Fatal \notin (NoLog + 1)..level_[last.cat])
          /\ ~aborted => (last.ret <=> last.arg \in (NoLog + 1)..level_[last.cat])
          /\ last.arg = Fatal => (aborted \/ last.ret)
    /\ last.op = "fatalWrapper2" =>
          /\ aborted <=> last.arg = Fatal
          /\ ~aborted => ~last.ret
    /\ aborted => last.op \in {"fatalWrapper", "fatalWrapper2"}

C9_Witness ==
    /\ aborted
    /\ last.op = "fatalWrapper"
    /\ last.arg = Fatal
    /\ level_[last.cat] = NoLog
    /\ defaultLevel_[last.cat] = Debug

----------------------------------------------------------------------------
(* Log::setLogRule as a function of its argument: the rule string is drawn
   from every string of at most MaxLen characters over ParseChars and from the
   examples, and parsed once. *)
ParseChars == {",", "=", "a", "2", "9", "-"}

ParseExamples ==
    { ExampleString,
      Notimedate,
      <<"*", "=", "2", "x">>,
      <<"*", "=", "2", ",", "c", "a", "t", "X", "=", "4">>,
      <<"c", "a", "t", "X", "=", "4", ",", "*", "=", "2">>,
      <<"*", "=", "5", ",", "n", "o", "t", "i", "m", "e", "d", "a", "t", "e">>,
      <<"N", "o", "t", "i", "m", "e", "d", "a", "t", "e">>,
      <<"*", "=", "-", "1">>,
      <<"*", "=", "0", "2">>,
      <<"*", "=", "9", "9", "9", "9", "9", "9", "9", "9", "9", "9", "9">> }

ParseInputs == UNION {[1..n -> ParseChars] : n \in 0..MaxLen} \cup ParseExamples

InitParse ==
    /\ CatInit
    /\ ctorLevel = [c \in Cats |-> NoLog]
    /\ last = NoCall
    /\ ruleString \in ParseInputs
    /\ LogInit
    /\ LockInit

NextParse == last = NoCall /\ SetLogRule(ruleString)

SpecParse == InitParse /\ [][NextParse]_vars

(* What the specification says of a token: it is a rule when it splits on "="
   into exactly two parts and the right part, as a whole, is an integer within
   [0, LastLogLevel] (no arithmetic is needed: the digits before the last are
   zeros, and after a minus sign all of them are). *)
IsLevelLiteral(v) ==
    LET neg == v # <<>> /\ Head(v) = "-"
        digits == IF neg THEN Tail(v) ELSE v
    IN  /\ digits # <<>>
        /\ \A i \in 1..Len(digits) : digits[i] \in DigitChars
        /\ \A i \in 1..(Len(digits) - 1) : digits[i] = "0"
        /\ digits[Len(digits)] \in (IF neg THEN {"0"} ELSE {"0", "1", "2", "3", "4", "5"})

LiteralLevel(v) == DigitVal(v[Len(v)])

IsRuleToken(tok) ==
    /\ tok # Notimedate
    /\ Len(Split(tok, "=")) = 2
    /\ IsLevelLiteral(Split(tok, "=")[2])

RECURSIVE RulesOfTokens(_)
RulesOfTokens(tokens) ==
    IF tokens = <<>> THEN <<>>
    ELSE (IF IsRuleToken(Head(tokens))
              THEN << <<Split(Head(tokens), "=")[1], LiteralLevel(Split(Head(tokens), "=")[2])>> >>
              ELSE <<>>)
         \o RulesOfTokens(Tail(tokens))

HasNotimedate(str) == \E i \in 1..Len(Split(str, ",")) : Split(str, ",")[i] = Notimedate

(* C7: parsing a rule string keeps, in input order, exactly the tokens of the
   form <pattern>=<integer in [0, LastLogLevel]> and drops every other token;
   notimedate disables the timestamp flag and produces no rule. *)
C7_KeepsExactlyWellFormedTokens ==
    last.op = "setLogRule" =>
        /\ rules_ = RulesOfTokens(Split(last.str, ","))
        /\ showTimeDate <=> ~HasNotimedate(last.str)

(* C7's example, which the code does parse as the specification says: the
   timestamp flag is disabled and the rule list is exactly [("*", 2)]. *)
C7_ExampleParses ==
    (last.op = "setLogRule" /\ last.str = ExampleString) =>
        /\ rules_ = << <<Star, Error>> >>
        /\ ~showTimeDate

----------------------------------------------------------------------------
(* The sink.  A byte written by a statement is a record [s, b]: s names the
   statement (its thread and number), b is the text.  std::osyncstream holds
   what is written in the thread's own syncbuf (pending) and emit() transfers
   it to the wrapped buffer as one atomic step. *)
StmtLevels == {Error}               \* the levels SpecLog's statements are issued with
Payload(t) == IF t = "t1" THEN "a" ELSE "b"
Tok(s, b) == [s |-> s, b |-> b]

(* Faulty variant of the write: the bytes go straight to the wrapped buffer,
   as with a plain std::ostream. *)
streamWriteUnsynchronized(t, toks, st) ==
    [st EXCEPT !.dest[wrapped[t]] = @ \o toks]

(* operator<< on the thread's writer: st is [pending, dest] *)
streamWrite(t, toks, st) ==
    [st EXCEPT !.pending[t] = @ \o toks]

(* std::basic_syncbuf::emit of a thread's syncbuf that wraps buffer w *)
emit(t, w, st) ==
    [pending |-> [st.pending EXCEPT ![t] = <<>>],
     dest |-> [st.dest EXCEPT ![w] = @ \o st.pending[t]]]

(* std::ostream::flush on the writer: sync() emits when emit-on-sync is set *)
flush(t, w, flag, st) == IF flag THEN emit(t, w, st) ELSE st

(* Faulty variant of the test: the writer is never rebound. *)
needsRebindNever(w, b) == FALSE

(* Log::logStream's test before it rebinds the thread's writer *)
needsRebind(w, b) == w # b

(* The switch of LogMessageBuilder's constructor *)
SeverityTag(l) ==
    CASE l = Fatal -> <<"F">>
      [] l = Debug -> <<"D">>
      [] l = Info -> <<"I">>
      [] l = Warn -> <<"W">>
      [] l = Error -> <<"E">>
      [] OTHER -> <<>>

(* Faulty variant of the constructor: the timestamp is written whether or not
   the flag is set and the formatting succeeded. *)
PrefixTimestampAlways(l, timed) ==
    SeverityTag(l) \o <<"TIME", " ">> \o <<"file", ":", "line", "] ">>

(* What LogMessageBuilder's constructor writes: timed says that the timestamp
   was formatted (showTimeDate is set and std::format did not throw). *)
Prefix(l, timed) ==
    SeverityTag(l) \o (IF timed THEN <<"TIME", " ">> ELSE <<>>) \o <<"file", ":", "line", "] ">>

Stamp(s, texts) == [i \in 1..Len(texts) |-> Tok(s, texts[i])]

Cur(t) == <<t, stmt[t].n>>

(* Log::logStream, line 202: the destination's buffer is read.  A statement
   starts here. *)
LogStreamRead(t) ==
    /\ pc[t] = "idle"
    /\ stmt[t].n < MaxStmts
    /\ \E l \in StmtLevels :
          stmt' = [stmt EXCEPT ![t] = [n |-> @.n + 1, level |-> l, time |-> FALSE]]
    /\ buf' = [buf EXCEPT ![t] = rdbuf(defaultLogStream)]
    /\ during' = [during EXCEPT ![<<t, stmt[t].n + 1>>] = {rdbuf(defaultLogStream)}]
    /\ pc' = [pc EXCEPT ![t] = "bind"]
    /\ UNCHANGED <<catVars, ctorLevel, last, ruleString, lockVars, defaultLogStream, tlsInit, wrapped,
                   emitOnSync, pending, dest, written, emittedTo, nswaps>>

(* Log::logStream, lines 203-207.  The first use in a thread runs the
   initializer of localLogStream (lines 43-47), which reads defaultLogStream
   itself; a writer bound to another buffer than buf is replaced by
   move-assignment, which emits what the old one holds. *)
LogStreamBind(t) ==
    /\ pc[t] = "bind"
    /\ LET w == IF tlsInit[t] THEN wrapped[t] ELSE rdbuf(defaultLogStream)
           st == [pending |-> pending, dest |-> dest]
           st2 == IF needsRebind(w, buf[t]) THEN emit(t, w, st) ELSE st
       IN  /\ wrapped' = [wrapped EXCEPT ![t] = IF needsRebind(w, buf[t]) THEN buf[t] ELSE w]
           /\ pending' = st2.pending
           /\ dest' = st2.dest
           /\ emittedTo' = [emittedTo EXCEPT ![Cur(t)] =
                                IF st2.dest # dest THEN @ \cup {w} ELSE @]
    /\ tlsInit' = [tlsInit EXCEPT ![t] = TRUE]
    /\ emitOnSync' = [emitOnSync EXCEPT ![t] = TRUE]
    /\ pc' = [pc EXCEPT ![t] = "ctor"]
    /\ UNCHANGED <<catVars, ctorLevel, last, ruleString, lockVars, defaultLogStream, buf, stmt,
                   written, during, nswaps>>

(* One write of a statement to the thread's writer, with its bookkeeping *)
Write(t, texts) ==
    LET toks == Stamp(Cur(t), texts)
        st == streamWrite(t, toks, [pending |-> pending, dest |-> dest])
    IN  /\ pending' = st.pending
        /\ dest' = st.dest
        /\ written' = [written EXCEPT ![Cur(t)] = @ \o toks]
        /\ emittedTo' = [emittedTo EXCEPT ![Cur(t)] =
                             IF st.dest # dest THEN @ \cup {wrapped[t]} ELSE @]

(* LogMessageBuilder::LogMessageBuilder *)
BuilderCtor(t) ==
    /\ pc[t] = "ctor"
    /\ \E formatted \in BOOLEAN :
          Write(t, Prefix(stmt[t].level, showTimeDate /\ formatted))
    /\ pc' = [pc EXCEPT ![t] = "write"]
    /\ UNCHANGED <<catVars, ctorLevel, last, ruleString, lockVars, defaultLogStream, tlsInit, wrapped,
                   emitOnSync, buf, stmt, during, nswaps>>

(* The caller's operator<< on the builder *)
CallerWrite(t) ==
    /\ pc[t] = "write"
    /\ Write(t, <<Payload(t)>>)
    /\ pc' = [pc EXCEPT ![t] = "dtor"]
    /\ UNCHANGED <<catVars, ctorLevel, last, ruleString, lockVars, defaultLogStream, tlsInit, wrapped,
                   emitOnSync, buf, stmt, during, nswaps>>

(* LogMessageBuilder::~LogMessageBuilder: the newline, then flush() *)
BuilderDtor(t) ==
    /\ pc[t] = "dtor"
    /\ LET toks == Stamp(Cur(t), <<"\n">>)
           st == streamWrite(t, toks, [pending |-> pending, dest |-> dest])
           st2 == flush(t, wrapped[t], emitOnSync[t], st)
       IN  /\ pending' = st2.pending
           /\ dest' = st2.dest
           /\ written' = [written EXCEPT ![Cur(t)] = @ \o toks]
           /\ emittedTo' = [emittedTo EXCEPT ![Cur(t)] =
                                IF st2.dest # dest THEN @ \cup {wrapped[t]} ELSE @]
    /\ pc' = [pc EXCEPT ![t] = "idle"]
    /\ UNCHANGED <<catVars, ctorLevel, last, ruleString, lockVars, defaultLogStream, tlsInit, wrapped,
                   emitOnSync, buf, stmt, during, nswaps>>

(* Log::setLogStream: a plain store to the pointer.  The threads inside
   Log::logStream at that moment see either value. *)
SetLogStream(stream) ==
    /\ nswaps < MaxSwaps
    /\ nswaps' = nswaps + 1
    /\ defaultLogStream' = stream
    /\ during' = [s \in StmtIds |->
                    IF pc[s[1]] \in {"bind", "nbind"} /\ s = Cur(s[1])
                        THEN during[s] \cup {rdbuf(stream)}
                        ELSE during[s]]
    /\ UNCHANGED <<catVars, ctorLevel, last, ruleString, lockVars, tlsInit, wrapped, emitOnSync,
                   pending, dest, pc, buf, stmt, written, emittedTo>>

(* The threads start after Log::setLogRule("notimedate"): no category is
   registered and the timestamp flag is off. *)
InitLog ==
    /\ live = [c \in Cats |-> FALSE]
    /\ name_ = [c \in Cats |-> NoName]
    /\ level_ = [c \in Cats |-> NoLog]
    /\ defaultLevel_ = [c \in Cats |-> NoLog]
    /\ categories_ = {}
    /\ rules_ = <<>>
    /\ showTimeDate = FALSE
    /\ aborted = FALSE
    /\ ctorLevel = [c \in Cats |-> NoLog]
    /\ last = [op |-> "setLogRule", str |-> Notimedate]
    /\ ruleString = <<>>
    /\ LogInit
    /\ LockInit

NextLog ==
    \/ \E t \in Threads : LogStreamRead(t)
    \/ \E t \in Threads : LogStreamBind(t)
    \/ \E t \in Threads : BuilderCtor(t)
    \/ \E t \in Threads : CallerWrite(t)
    \/ \E t \in Threads : BuilderDtor(t)
    \/ \E stream \in Streams : SetLogStream(stream)

SpecLog == InitLog /\ [][NextLog]_vars

(* A statement is complete when its builder has been destroyed. *)
Completed(s) ==
    \/ s[2] < stmt[s[1]].n
    \/ s[2] = stmt[s[1]].n /\ pc[s[1]] = "idle"

(* The lines of a destination: a line ends at a newline and starts after the
   newline before it. *)
Newlines(b) == {i \in 1..Len(dest[b]) : dest[b][i].b = "\n"}

LineStart(b, i) ==
    LET before == {j \in Newlines(b) : j < i}
    IN  IF before = {} THEN 1
        ELSE 1 + (CHOOSE j \in before : \A k \in before : k <= j)

Line(b, i) == SubSeq(dest[b], LineStart(b, i), i)

LinesOf(s) == UNION {{<<b, i>> : i \in {j \in Newlines(b) : dest[b][j].s = s}} : b \in Streams}

(* C1: whatever the interleaving, every destination holds whole lines only,
   every line is exactly what one completed statement wrote (its tag first, its
   one payload character last before the newline), and every completed
   statement has exactly one line, over all destinations; a statement that is
   not complete has delivered nothing. *)
C1_OneLinePerStatement ==
    /\ \A b \in Streams :
          /\ dest[b] # <<>> => dest[b][Len(dest[b])].b = "\n"
          /\ \A i \in Newlines(b) :
                LET s == dest[b][i].s
                    line == Line(b, i)
                IN  /\ Completed(s)
                    /\ line = written[s]
                    /\ \A k \in 1..Len(line) : line[k].s = s
                    /\ line[1].b \in {"F", "E", "W", "I", "D"}
                    /\ Len(line) >= 3 /\ line[Len(line) - 1].b = Payload(s[1])
    /\ \A s \in StmtIds :
          Cardinality(LinesOf(s)) = (IF Completed(s) THEN 1 ELSE 0)

(* Both threads have delivered lines to the same destination, three lines or
   more, while a thread holds a part of its next statement. *)
C1_Witness ==
    \E b \in Streams :
        /\ Cardinality(Newlines(b)) >= 3
        /\ \A t \in Threads : \E i \in Newlines(b) : dest[b][i].s[1] = t
        /\ \E t \in Threads : pending[t] # <<>>

(* C10: the writer a call of Log::logStream() returns is bound to a buffer that
   was the process-wide destination's during that call, so a call made after
   setLogStream(S) has returned yields a writer bound to S's buffer, also in a
   thread that owned a writer bound to the old destination; and no statement's
   bytes reach a destination that was replaced before the statement started. *)
C10_RebindAfterSwap ==
    /\ \A t \in Threads :
          pc[t] \in {"ctor", "write", "dtor"} => wrapped[t] \in during[Cur(t)]
    /\ \A s \in StmtIds : emittedTo[s] \subseteq during[s]

(* A thread delivered its first statement to cerr, the destination was then
   replaced by s1, and the thread's second statement went to s1. *)
C10_Witness ==
    \E t \in Threads :
        /\ emittedTo[<<t, 1>>] = {rdbuf("cerr")}
        /\ during[<<t, 2>>] = {rdbuf("s1")}
        /\ emittedTo[<<t, 2>>] = {rdbuf("s1")}
        /\ nswaps >= 1

----------------------------------------------------------------------------
(* A statement inside a statement.  The operand of a log statement is
   evaluated while its builder is open (the builder is a temporary of the full
   expression), and a function called there may log: the same thread calls
   Log::logStream() again and builds a second LogMessageBuilder on the same
   thread-local writer.  The inner statement is the thread's statement n, the
   outer one, suspended before its caller's write, is n - 1. *)
Outer(t) == <<t, stmt[t].n - 1>>

(* The statements whose bytes the thread's syncbuf holds back *)
Held(t) == {pending[t][i].s : i \in 1..Len(pending[t])}

(* One write of statement s to the thread's writer *)
WriteAs(t, s, texts) ==
    LET toks == Stamp(s, texts)
        st == streamWrite(t, toks, [pending |-> pending, dest |-> dest])
    IN  /\ pending' = st.pending
        /\ dest' = st.dest
        /\ written' = [written EXCEPT ![s] = @ \o toks]
        /\ UNCHANGED emittedTo

(* The newline and the flush of statement s's builder *)
FinishAs(t, s) ==
    LET toks == Stamp(s, <<"\n">>)
        st == streamWrite(t, toks, [pending |-> pending, dest |-> dest])
        st2 == flush(t, wrapped[t], emitOnSync[t], st)
    IN  /\ pending' = st2.pending
        /\ dest' = st2.dest
        /\ written' = [written EXCEPT ![s] = @ \o toks]
        /\ emittedTo' = [x \in StmtIds |->
                            IF emitOnSync[t] /\ x \in Held(t) \cup {s}
                                THEN emittedTo[x] \cup {wrapped[t]}
                                ELSE emittedTo[x]]

(* Log::logStream, line 202, called while the thread's builder is open *)
NestedLogStreamRead(t) ==
    /\ pc[t] = "write"
    /\ stmt[t].n < MaxStmts
    /\ \E l \in StmtLevels :
          stmt' = [stmt EXCEPT ![t] = [n |-> @.n + 1, level |-> l, time |-> FALSE]]
    /\ buf' = [buf EXCEPT ![t] = rdbuf(defaultLogStream)]
    /\ during' = [during EXCEPT ![<<t, stmt[t].n + 1>>] = {rdbuf(defaultLogStream)}]
    /\ pc' = [pc EXCEPT ![t] = "nbind"]
    /\ UNCHANGED <<catVars, ctorLevel, last, ruleString, lockVars, defaultLogStream, tlsInit, wrapped,
                   emitOnSync, pending, dest, written, emittedTo, nswaps>>

(* Log::logStream, lines 203-207, in the nested call: the move-assignment
   emits what the writer holds, the open statement's prefix, to the buffer the
   writer was bound to. *)
NestedLogStreamBind(t) ==
    /\ pc[t] = "nbind"
    /\ LET w == wrapped[t]
           st == [pending |-> pending, dest |-> dest]
           st2 == IF needsRebind(w, buf[t]) THEN emit(t, w, st) ELSE st
       IN  /\ wrapped' = [wrapped EXCEPT ![t] = IF needsRebind(w, buf[t]) THEN buf[t] ELSE w]
           /\ pending' = st2.pending
           /\ dest' = st2.dest
           /\ emittedTo' = [x \in StmtIds |->
                               IF needsRebind(w, buf[t]) /\ x \in Held(t)
                                   THEN emittedTo[x] \cup {w}
                                   ELSE emittedTo[x]]
    /\ pc' = [pc EXCEPT ![t] = "nctor"]
    /\ UNCHANGED <<catVars, ctorLevel, last, ruleString, lockVars, defaultLogStream, tlsInit,
                   emitOnSync, buf, stmt, written, during, nswaps>>

(* The inner statement's builder: constructor, caller's write, destructor *)
NestedBuilderCtor(t) ==
    /\ pc[t] = "nctor"
    /\ \E formatted \in BOOLEAN :
          WriteAs(t, Cur(t), Prefix(stmt[t].level, showTimeDate /\ formatted))
    /\ pc' = [pc EXCEPT ![t] = "nwrite"]
    /\ UNCHANGED <<catVars, ctorLevel, last, ruleString, lockVars, defaultLogStream, tlsInit, wrapped,
                   emitOnSync, buf, stmt, during, nswaps>>

NestedCallerWrite(t) ==
    /\ pc[t] = "nwrite"
    /\ WriteAs(t, Cur(t), <<Payload(t)>>)
    /\ pc' = [pc EXCEPT ![t] = "ndtor"]
    /\ UNCHANGED <<catVars, ctorLevel, last, ruleString, lockVars, defaultLogStream, tlsInit, wrapped,
                   emitOnSync, buf, stmt, during, nswaps>>

NestedBuilderDtor(t) ==
    /\ pc[t] = "ndtor"
    /\ FinishAs(t, Cur(t))
    /\ pc' = [pc EXCEPT ![t] = "owrite"]
    /\ UNCHANGED <<catVars, ctorLevel, last, ruleString, lockVars, defaultLogStream, tlsInit, wrapped,
                   emitOnSync, buf, stmt, during, nswaps>>

(* The outer statement goes on: the caller's write, then the destructor, on
   the reference to the thread-local writer its builder has held all along. *)
OuterCallerWrite(t) ==
    /\ pc[t] = "owrite"
    /\ WriteAs(t, Outer(t), <<Payload(t)>>)
    /\ pc' = [pc EXCEPT ![t] = "odtor"]
    /\ UNCHANGED <<catVars, ctorLevel, last, ruleString, lockVars, defaultLogStream, tlsInit, wrapped,
                   emitOnSync, buf, stmt, during, nswaps>>

OuterBuilderDtor(t) ==
    /\ pc[t] = "odtor"
    /\ FinishAs(t, Outer(t))
    /\ pc' = [pc EXCEPT ![t] = "idle"]
    /\ UNCHANGED <<catVars, ctorLevel, last, ruleString, lockVars, defaultLogStream, tlsInit, wrapped,
                   emitOnSync, buf, stmt, during, nswaps>>

NextNested ==
    \/ \E t \in Threads : LogStreamRead(t)
    \/ \E t \in Threads : LogStreamBind(t)
    \/ \E t \in Threads : BuilderCtor(t)
    \/ \E t \in Threads : CallerWrite(t)
    \/ \E t \in Threads : BuilderDtor(t)
    \/ \E t \in Threads : NestedLogStreamRead(t)
    \/ \E t \in Threads : NestedLogStreamBind(t)
    \/ \E t \in Threads : NestedBuilderCtor(t)
    \/ \E t \in Threads : NestedCallerWrite(t)
    \/ \E t \in Threads : NestedBuilderDtor(t)
    \/ \E t \in Threads : OuterCallerWrite(t)
    \/ \E t \in Threads : OuterBuilderDtor(t)
    \/ \E stream \in Streams : SetLogStream(stream)

SpecNested == InitLog /\ [][NextNested]_vars

(* The destinations that hold bytes of statement s *)
DestinationsOf(s) == {b \in Streams : \E i \in 1..Len(dest[b]) : dest[b][i].s = s}

(* C11: whatever setLogStream does meanwhile, the bytes of one statement
   (prefix, content, newline) are all delivered to one destination, the old
   one or the new one, also when Log::logStream() is called again in the
   thread while the statement's builder is open. *)
C11_NeverSplitBetweenDestinations ==
    \A s \in StmtIds : Cardinality(DestinationsOf(s)) <= 1

----------------------------------------------------------------------------
(* The "net" scenario: categories are constructed, among them "net" with
   Warn, rule strings that name "net" are installed, and checkLogLevel is
   called with every level. *)
NetIs1 == <<"n", "e", "t", "=", "1">>
NetIs2 == <<"n", "e", "t", "=", "2">>
ScenarioStrings == {NetIs1, NetIs2}

NextScenario ==
    \/ \E a \in CategoryCtorArgs : Construct(a[1], a[2], a[3])
    \/ \E c \in Cats : Destroy(c)
    \/ \E str \in ScenarioStrings : SetLogRule(str)
    \/ \E c \in Cats, l \in LogLevels : CheckLogLevel(c, l)

SpecScenario == Init /\ [][NextScenario]_vars

(* checkLogLevel has just returned for a category "net" constructed with Warn
   while the rule list is the one rule (net, n): the list setLogRule stores
   for "net=1" (n = 1) and for "net=2" (n = 2). *)
NetCheckedUnder(n) ==
    /\ last.op = "checkLogLevel"
    /\ name_[last.cat] = Net
    /\ ctorLevel[last.cat] = Warn
    /\ rules_ = << <<Net, n>> >>

(* C12 as stated: for a category "net" constructed with Warn, after
   setLogRule("net=1"), checkLevel(net, Error) is true and checkLevel(net, Warn)
   is false. *)
C12_NetAtOneAdmitsError ==
    NetCheckedUnder(1) =>
        /\ last.arg = Error => last.ret
        /\ last.arg = Warn => ~last.ret

(* C12, amended: 1 is the ordinal of Fatal and 2 that of Error.  After
   setLogRule("net=2"), checkLevel(net, Error) is true and checkLevel(net, Warn)
   is false; after setLogRule("net=1"), checkLevel(net, Fatal) is true and
   checkLevel(net, Error) and checkLevel(net, Warn) are false. *)
C12_NetAtErrorOrdinal ==
    /\ Error = 2 /\ Fatal = 1
    /\ NetCheckedUnder(2) =>
          /\ last.arg = Error => last.ret
          /\ last.arg = Warn => ~last.ret
    /\ NetCheckedUnder(1) =>
          /\ last.arg = Fatal => last.ret
          /\ last.arg \in {Error, Warn} => ~last.ret

C12_Witness ==
    /\ NetCheckedUnder(2)
    /\ last.arg = Error
    /\ last.ret
    /\ level_[last.cat] = Error

----------------------------------------------------------------------------
(* The line of one statement.  One thread issues statements of every level,
   with the timestamp flag on, its formatting succeeding or throwing, and with
   the flag turned off by Log::setLogRule("notimedate"). *)

(* LogMessageBuilder::LogMessageBuilder(out, l, filename, lineNumber), with l
   any level; the statement keeps l and whether the timestamp was written. *)
BuilderCtorAt(t, l) ==
    /\ pc[t] = "ctor"
    /\ \E formatted \in BOOLEAN :
          /\ Write(t, Prefix(l, showTimeDate /\ formatted))
          /\ stmt' = [stmt EXCEPT ![t] = [n |-> @.n, level |-> l,
                                          time |-> showTimeDate /\ formatted]]
    /\ pc' = [pc EXCEPT ![t] = "write"]
    /\ UNCHANGED <<catVars, ctorLevel, last, ruleString, lockVars, defaultLogStream, tlsInit, wrapped,
                   emitOnSync, buf, during, nswaps>>

NextFormat ==
    \/ LogStreamRead("t1")
    \/ LogStreamBind("t1")
    \/ \E l \in LogLevels : BuilderCtorAt("t1", l)
    \/ CallerWrite("t1")
    \/ BuilderDtor("t1")
    \/ SetLogRule(Notimedate)

SpecFormat == Init /\ [][NextFormat]_vars

(* The text of a line, with the separating spaces as atoms of their own *)
RECURSIVE Atoms(_)
Atoms(line) ==
    IF line = <<>> THEN <<>>
    ELSE (IF Head(line).b = "] " THEN <<"]", " ">> ELSE <<Head(line).b>>) \o Atoms(Tail(line))

(* The last line of the destination of thread t's writer *)
LastLine(t) == Line(wrapped[t], Len(dest[wrapped[t]]))

(* The one-character tags of the specification *)
TagOf(l) ==
    IF l = Fatal THEN <<"F">> ELSE IF l = Error THEN <<"E">> ELSE IF l = Warn THEN <<"W">>
    ELSE IF l = Info THEN <<"I">> ELSE IF l = Debug THEN <<"D">> ELSE <<>>

(* <SeverityTag>[ <timestamp>] <file>:<line>] <message>\n, as the format shows
   it: a space before the timestamp segment and a space before file:line. *)
FormatShown(l, timed, msg) ==
    TagOf(l) \o (IF timed THEN <<" ", "TIME">> ELSE <<>>)
        \o <<" ", "file", ":", "line", "]", " ">> \o <<msg, "\n">>

(* The sequence the constructor's statements give: the tag, the timestamp
   followed by a space, then file:line] and a space. *)
FormatWritten(l, timed, msg) ==
    TagOf(l) \o (IF timed THEN <<"TIME", " ">> ELSE <<>>)
        \o <<"file", ":", "line", "]", " ">> \o <<msg, "\n">>

(* A statement of thread t has just been completed. *)
JustCompleted(t) == pc[t] = "idle" /\ stmt[t].n >= 1

(* C13: the line a statement has delivered when its builder is destroyed is
   <SeverityTag>[ <timestamp>] <file>:<line>] <message> and one newline, the
   timestamp segment present exactly when the flag was enabled and formatting
   succeeded, the segments separated as the format shows, with the timestamp
   and without it. *)
C13_LineFormatAsShown ==
    \A t \in Threads :
        JustCompleted(t) =>
            /\ pending[t] = <<>>
            /\ Atoms(LastLine(t)) = FormatShown(stmt[t].level, stmt[t].time, Payload(t))

(* C13, amended: the line is the tag (nothing for a level without one),
   immediately followed by the timestamp and one space when the flag was
   enabled and formatting succeeded, immediately followed by file:line] and
   one space, the caller's content and exactly one newline, all delivered when
   the destructor returns.  Nothing separates the tag from what follows it. *)
C13_LineAsWritten ==
    \A t \in Threads :
        JustCompleted(t) =>
            /\ pending[t] = <<>>
            /\ Atoms(LastLine(t)) = FormatWritten(stmt[t].level, stmt[t].time, Payload(t))

(* The thread's first line has a timestamp; "notimedate" was then installed and
   its second statement, of level Warn, has none. *)
C13_Witness ==
    /\ JustCompleted("t1")
    /\ stmt["t1"].n = 2
    /\ stmt["t1"].level = Warn
    /\ ~stmt["t1"].time
    /\ ~showTimeDate
    /\ \E i \in 1..Len(dest["cerr"]) : dest["cerr"][i] = Tok(<<"t1", 1>>, "TIME")

----------------------------------------------------------------------------
(* The registry's member functions called on their own, on every live
   category, registered or not: LogRegistry::registerCategory outside the
   constructor and LogRegistry::unregisterCategory outside the destructor. *)
RegistryRuleLists ==
    { <<>>, << <<Star, Warn>> >>, << <<CatX, Error>> >>, << <<Star, Warn>>, <<Net, Info>> >> }

RegisterCategory(c) ==
    /\ ~aborted
    /\ live[c]
    /\ LET reg == registerCategory(c, name_[c], defaultLevel_[c], level_[c])
       IN  /\ categories_' = reg.cats
           /\ level_' = [level_ EXCEPT ![c] = reg.lvl]
    /\ last' = [op |-> "registerCategory", cat |-> c, pre |-> catVars]
    /\ UNCHANGED <<live, name_, defaultLevel_, rules_, showTimeDate, aborted, ctorLevel,
                   ruleString, lockVars, logVars>>

UnregisterCategory(c) ==
    /\ ~aborted
    /\ live[c]
    /\ categories_' = unregisterCategory(c)
    /\ last' = [op |-> "unregisterCategory", cat |-> c, pre |-> catVars]
    /\ UNCHANGED <<live, name_, level_, defaultLevel_, rules_, showTimeDate, aborted,
                   ctorLevel, ruleString, lockVars, logVars>>

NextRegistry ==
    \/ \E c \in Cats, nm \in Names, l \in CtorLevels : Construct(c, nm, l)
    \/ \E c \in Cats : Destroy(c)
    \/ \E c \in Cats, l \in DirectLevels : SetLogLevel(c, l)
    \/ \E rules \in RegistryRuleLists : SetLogRules(rules)
    \/ \E c \in Cats : RegisterCategory(c)
    \/ \E c \in Cats : UnregisterCategory(c)

SpecRegistry == Init /\ [][NextRegistry]_vars

(* C14: in every state the registry holds live categories only; a call of
   unregisterCategory on a category that is not registered changes nothing;
   and while a live category stays unregistered, no setRules and no
   registration or construction of another category changes its level. *)
C14_OnlyLiveCategories ==
    /\ [](/\ \A c \in categories_ : live[c]
          /\ (last.op = "unregisterCategory" /\ last.cat \notin last.pre[5])
                 => catVars = last.pre)
    /\ [][\A c \in Cats :
            (/\ live[c] /\ live'[c]
             /\ c \notin categories_ /\ c \notin categories_'
             /\ last'.op \in {"setLogRules", "registerCategory", "construct"})
                => level_'[c] = level_[c]]_vars

(* The second unregisterCategory on a live category whose level was set
   directly, while a rule list is stored and the other category is registered. *)
C14_Witness ==
    /\ last.op = "unregisterCategory"
    /\ last.cat \notin last.pre[5]
    /\ level_[last.cat] = Debug
    /\ rules_ = << <<Star, Warn>> >>
    /\ \E c \in categories_ : level_[c] = Warn

(* C15: registerCategory on a registered category changes nothing: not the
   category set, not the stored rules, not the category's level, also when
   that level was set directly after the first registration.  Only the call
   that inserts the category applies the rules to it. *)
C15_RegisterTwiceIsNoOp ==
    last.op = "registerCategory" =>
        IF last.cat \in last.pre[5]
            THEN catVars = last.pre
            ELSE /\ categories_ = last.pre[5] \cup {last.cat}
                 /\ rules_ = last.pre[6]
                 /\ level_[last.cat] =
                       LastMatchLevel(name_[last.cat], defaultLevel_[last.cat], rules_)
                 /\ \A c \in Cats \ {last.cat} : level_[c] = last.pre[3][c]

(* The category is registered, the rules give it Warn, setLogLevel(Debug) was
   called on it, and registerCategory is called again. *)
C15_Witness ==
    /\ last.op = "registerCategory"
    /\ last.cat \in last.pre[5]
    /\ rules_ = << <<Star, Warn>> >>
    /\ level_[last.cat] = Debug

----------------------------------------------------------------------------
(* The registry under concurrent callers.  Every member function of
   LogRegistry takes mutex_ with a std::lock_guard for its whole body.  A call
   is a sequence of steps of its thread: it waits for the mutex, takes it, and
   every store to a shared field (rules_, categories_, a category's level_) is
   a step of its own; the lock_guard's destructor releases the mutex.  The
   threads call again and again. *)
LockRuleLists ==
    { << <<Star, Error>> >>, << <<Star, Warn>> >>, << <<Star, Debug>>, <<Net, Error>> >> }

(* Faulty variant of the lock: it is taken whoever holds it. *)
canLockAlways(owner) == TRUE

(* std::mutex::lock returns when nobody holds the mutex *)
canLock(owner) == owner = NoOwner

(* Faulty variant of the release: the mutex stays with its owner. *)
unlockForgotten(owner) == owner

(* std::lock_guard's destructor: the mutex is released *)
unlock(owner) == NoOwner

(* The thread is inside a member function's locked body. *)
InCall(t) == call[t].pc \notin {"idle", "lock"}

(* LogRegistry::setLogRules(rules), registerCategory(category) and
   unregisterCategory(category) are entered: the thread goes for the mutex. *)
CallSetLogRules(t, rules) ==
    /\ call[t].pc = "idle"
    /\ call' = [call EXCEPT ![t] = [op |-> "setLogRules", pc |-> "lock", rules |-> rules]]
    /\ UNCHANGED <<catVars, ctorLevel, last, ruleString, mutex_, logVars>>

CallRegisterCategory(t, c) ==
    /\ call[t].pc = "idle"
    /\ call' = [call EXCEPT ![t] = [op |-> "registerCategory", pc |-> "lock", cat |-> c]]
    /\ UNCHANGED <<catVars, ctorLevel, last, ruleString, mutex_, logVars>>

CallUnregisterCategory(t, c) ==
    /\ call[t].pc = "idle"
    /\ call' = [call EXCEPT ![t] = [op |-> "unregisterCategory", pc |-> "lock", cat |-> c]]
    /\ UNCHANGED <<catVars, ctorLevel, last, ruleString, mutex_, logVars>>

(* std::lock_guard<std::mutex> lock(mutex_).  A setLogRules call remembers the
   levels it found (history). *)
Lock(t) ==
    /\ call[t].pc = "lock"
    /\ canLock(mutex_)
    /\ mutex_' = t
    /\ call' = [call EXCEPT ![t] =
                   IF @.op = "setLogRules"
                       THEN [op |-> @.op, pc |-> "body", rules |-> @.rules, pre |-> level_]
                       ELSE [op |-> @.op, pc |-> "body", cat |-> @.cat]]
    /\ UNCHANGED <<catVars, ctorLevel, last, ruleString, logVars>>

(* setLogRules: rules_ = rules *)
SetLogRulesStore(t) ==
    /\ call[t].op = "setLogRules" /\ call[t].pc = "body"
    /\ rules_' = StoredRules(call[t].rules)
    /\ call' = [call EXCEPT ![t] = [op |-> @.op, pc |-> "loop", rules |-> @.rules,
                                    pre |-> @.pre, todo |-> categories_]]
    /\ UNCHANGED <<live, name_, level_, defaultLevel_, categories_, showTimeDate, aborted,
                   ctorLevel, last, ruleString, mutex_, logVars>>

(* setLogRules: for (auto *category : categories_), in the set's order, which
   is any order; applyRule starts with category->resetLogLevel() and takes the
   range of its loop over rules_. *)
SetLogRulesLoop(t) ==
    /\ call[t].op = "setLogRules" /\ call[t].pc = "loop"
    /\ IF call[t].todo = {}
          THEN /\ call' = [call EXCEPT ![t] = [op |-> @.op, pc |-> "unlock",
                                               rules |-> @.rules, pre |-> @.pre]]
               /\ UNCHANGED level_
          ELSE \E c \in call[t].todo :
                  /\ level_' = [level_ EXCEPT ![c] = defaultLevel_[c]]
                  /\ call' = [call EXCEPT ![t] =
                                 [op |-> @.op, pc |-> "rule", rules |-> @.rules, pre |-> @.pre,
                                  todo |-> @.todo \ {c}, cat |-> c, it |-> rules_]]
    /\ UNCHANGED <<live, name_, defaultLevel_, categories_, rules_, showTimeDate, aborted,
                   ctorLevel, last, ruleString, mutex_, logVars>>

(* registerCategory: the test, the insert, and applyRule's resetLogLevel() *)
RegisterCategoryBody(t) ==
    /\ call[t].op = "registerCategory" /\ call[t].pc = "body"
    /\ LET c == call[t].cat
       IN  IF c \notin categories_
               THEN /\ categories_' = categories_ \cup {c}
                    /\ level_' = [level_ EXCEPT ![c] = defaultLevel_[c]]
                    /\ call' = [call EXCEPT ![t] = [op |-> @.op, pc |-> "rule", cat |-> c,
                                                    it |-> rules_]]
               ELSE /\ call' = [call EXCEPT ![t] = [op |-> @.op, pc |-> "unlock"]]
                    /\ UNCHANGED <<categories_, level_>>
    /\ UNCHANGED <<live, name_, defaultLevel_, rules_, showTimeDate, aborted,
                   ctorLevel, last, ruleString, mutex_, logVars>>

(* applyRule's loop, for (auto &rule : rules_): the range is taken when the
   loop starts (it) and one rule is applied per step *)
ApplyRuleStep(t) ==
    /\ call[t].pc = "rule"
    /\ LET c == call[t].cat
           it == call[t].it
       IN  IF it # <<>>
               THEN /\ level_' = [level_ EXCEPT ![c] = ApplyLoop(@, name_[c], <<Head(it)>>)]
                    /\ call' = [call EXCEPT ![t].it = Tail(it)]
               ELSE /\ call' = [call EXCEPT ![t] =
                                   IF @.op = "setLogRules"
                                       THEN [op |-> @.op, pc |-> "loop", rules |-> @.rules,
                                             pre |-> @.pre, todo |-> @.todo]
                                       ELSE [op |-> @.op, pc |-> "unlock"]]
                    /\ UNCHANGED level_
    /\ UNCHANGED <<live, name_, defaultLevel_, categories_, rules_, showTimeDate, aborted,
                   ctorLevel, last, ruleString, mutex_, logVars>>

(* unregisterCategory: categories_.erase(&category) *)
UnregisterCategoryBody(t) ==
    /\ call[t].op = "unregisterCategory" /\ call[t].pc = "body"
    /\ categories_' = unregisterCategory(call[t].cat)
    /\ call' = [call EXCEPT ![t] = [op |-> @.op, pc |-> "unlock"]]
    /\ UNCHANGED <<live, name_, level_, defaultLevel_, rules_, showTimeDate, aborted,
                   ctorLevel, last, ruleString, mutex_, logVars>>

(* The member function returns: the lock_guard is destroyed. *)
Unlock(t) ==
    /\ call[t].pc = "unlock"
    /\ mutex_' = unlock(mutex_)
    /\ call' = [call EXCEPT ![t] = Idle]
    /\ UNCHANGED <<catVars, ctorLevel, last, ruleString, logVars>>

(* One step of thread t *)
ThreadStep(t) ==
    \/ \E rules \in LockRuleLists : CallSetLogRules(t, rules)
    \/ \E c \in Cats : CallRegisterCategory(t, c)
    \/ \E c \in Cats : CallUnregisterCategory(t, c)
    \/ Lock(t)
    \/ SetLogRulesStore(t)
    \/ SetLogRulesLoop(t)
    \/ RegisterCategoryBody(t)
    \/ ApplyRuleStep(t)
    \/ UnregisterCategoryBody(t)
    \/ Unlock(t)

(* Two categories have been constructed: "catX" and "net", both with Info. *)
InitLock ==
    /\ live = [c \in Cats |-> TRUE]
    /\ name_ = [c \in Cats |-> IF c = "c1" THEN CatX ELSE Net]
    /\ level_ = [c \in Cats |-> Info]
    /\ defaultLevel_ = [c \in Cats |-> Info]
    /\ categories_ = Cats
    /\ rules_ = <<>>
    /\ showTimeDate = TRUE
    /\ aborted = FALSE
    /\ ctorLevel = [c \in Cats |-> Info]
    /\ last = [op |-> "construct", cat |-> "c2"]
    /\ ruleString = <<>>
    /\ LogInit
    /\ LockInit

NextCalls == \E t \in Threads : ThreadStep(t)

SpecCalls == InitLock /\ [][NextCalls]_vars

(* C16: whenever no thread is inside a registry member function, every
   registered category has the level the one stored rule list assigns to it;
   so two concurrent setRules(R1) and setRules(R2) leave all categories under
   the same list, the stored one. *)
C16_RegistryOperationsAtomic ==
    (\A t \in Threads : ~InCall(t)) =>
        \A c \in categories_ :
            level_[c] = LastMatchLevel(name_[c], defaultLevel_[c], rules_)

(* A setRules call has completed and left both categories under its list
   while another thread's setRules call, with another list, waits for the
   mutex. *)
C16_Witness ==
    /\ \A t \in Threads : ~InCall(t)
    /\ categories_ = Cats
    /\ rules_ = << <<Star, Debug>>, <<Net, Error>> >>
    /\ level_ = [c \in Cats |-> IF c = "c1" THEN Debug ELSE Error]
    /\ \E t \in Threads :
          /\ call[t].pc = "lock"
          /\ call[t].op = "setLogRules"
          /\ call[t].rules = << <<Star, Warn>> >>

----------------------------------------------------------------------------
(* LogCategory::checkLogLevel takes no lock: a thread that is about to log
   reads level_ while a setLogRules call is between its lock and its unlock.
   The read and each store are single steps: the answer is computed from one
   of the values the field has held. *)
RaceLevels == {Warn, Info}    \* the levels the racing caller asks for

(* The setLogRules call the read is concurrent with *)
SetLogRulesInProgress(t) == call[t].op = "setLogRules" /\ InCall(t)

CheckLogLevelUnlocked(c, l) ==
    /\ c \in categories_
    /\ \E t \in Threads :
          /\ SetLogRulesInProgress(t)
          /\ last' = [op |-> "checkLogLevel", cat |-> c, arg |-> l,
                      ret |-> checkLogLevel(level_[c], l),
                      pre |-> call[t].pre[c], rules |-> call[t].rules]
    /\ UNCHANGED <<catVars, ctorLevel, ruleString, lockVars, logVars>>

NextRace ==
    \/ \E t \in Threads : ThreadStep(t)
    \/ \E c \in Cats, l \in RaceLevels : CheckLogLevelUnlocked(c, l)

SpecRace == InitLock /\ [][NextRace]_vars

(* C18: a checkLevel call concurrent with a setRules call on a registered
   category returns what checkLevel returns for the category's level before
   that setRules or for the level that setRules assigns: never an answer that
   only a third, transient level gives. *)
C18_StaleOrFreshOnly ==
    (last.op = "checkLogLevel" /\ last.cat \in categories_) =>
        LET old == last.pre
            new == LastMatchLevel(name_[last.cat], defaultLevel_[last.cat], last.rules)
        IN  \/ last.ret <=> last.arg \in (NoLog + 1)..old
            \/ last.ret <=> last.arg \in (NoLog + 1)..new

----------------------------------------------------------------------------
(* The tokens of a rule string, and those of them that are rules for the
   specification *)
TokensOf(str) == Split(str, ",")
RuleTokens(str) == {i \in 1..Len(TokensOf(str)) : IsRuleToken(TokensOf(str)[i])}

(* C17: a token produces a rule only when it splits on "=" into exactly two
   parts and the right part as a whole is an integer within [0, LastLogLevel]:
   after setLogRule(str), every stored rule is the pattern and the level of
   such a token of str, and there are no more rules than such tokens.  A token
   with digits followed by other characters ("*=2x"), a negative, non-numeric
   or out-of-range value, or not exactly two parts, contributes no rule. *)
C17_OnlyWholeIntegersMakeRules ==
    last.op = "setLogRule" =>
        /\ Len(rules_) <= Cardinality(RuleTokens(last.str))
        /\ \A k \in 1..Len(rules_) :
              \E i \in RuleTokens(last.str) :
                  LET item == Split(TokensOf(last.str)[i], "=")
                  IN  rules_[k] = <<item[1], LiteralLevel(item[2])>>

----------------------------------------------------------------------------
(* C19: the timestamp flag starts enabled and never goes back to enabled; the
   step that disables it is a setLogRule call whose string holds the token
   notimedate, and every such call leaves it disabled; a setLogRule call
   without the token stores its rules and leaves the flag as it was, so
   disabled once it has been disabled. *)
C19_TimestampFlagMonotone ==
    /\ showTimeDate = TRUE
    /\ [][/\ showTimeDate' => showTimeDate
          /\ (showTimeDate /\ ~showTimeDate')
                => (last'.op = "setLogRule" /\ HasNotimedate(last'.str))
          /\ (last'.op = "setLogRule" /\ HasNotimedate(last'.str)) => ~showTimeDate'
          /\ (last'.op = "setLogRule" /\ ~HasNotimedate(last'.str))
                => /\ showTimeDate' = showTimeDate
                   /\ rules_' = RulesOfTokens(TokensOf(last'.str))]_vars

(* After the flag was disabled, setLogRule("catX=3,*=2") has stored its two
   rules and the flag is still disabled. *)
C19_Witness ==
    /\ ~showTimeDate
    /\ last.op = "setLogRule"
    /\ ~HasNotimedate(last.str)
    /\ rules_ = << <<CatX, Warn>>, <<Star, Error>> >>

----------------------------------------------------------------------------
(* Progress.  A thread that is in a call takes its next step when it can: it
   is scheduled (weak fairness of its steps inside the call).  Nothing makes a
   thread start a call, and std::mutex does not order the threads that wait
   for it. *)
CallStep(t) ==
    \/ Lock(t)
    \/ SetLogRulesStore(t)
    \/ SetLogRulesLoop(t)
    \/ RegisterCategoryBody(t)
    \/ ApplyRuleStep(t)
    \/ UnregisterCategoryBody(t)
    \/ Unlock(t)

SpecCallsFair == SpecCalls /\ \A t \in Threads : WF_vars(CallStep(t))

(* C20 as stated: every started call eventually acquires the mutex, completes
   and releases it. *)
C20_EveryStartedCallCompletes ==
    \A t \in Threads : (call[t].pc = "lock") ~> (call[t].pc = "idle")

(* C20, amended: the thread inside a member function is the one that holds the
   mutex (no call takes it twice, no two calls hold it); a call that holds it
   completes and releases it; and whenever a call waits for the mutex, some
   call holds it or comes to hold it.  A waiting call can be overtaken again and
   again by the calls the other threads go on to make. *)
C20_DeadlockFree ==
    /\ [](\A t \in Threads : InCall(t) => mutex_ = t)
    /\ \A t \in Threads : InCall(t) ~> (call[t].pc = "idle" /\ mutex_ # t)
    /\ (\E t \in Threads : call[t].pc = "lock") ~> (\E t \in Threads : InCall(t))

(* One thread is in the loop of setLogRules, with the mutex, while the other
   has started a call and waits. *)
C20_Witness ==
    \E t, u \in Threads :
        /\ t # u
        /\ mutex_ = t
        /\ call[t].op = "setLogRules" /\ call[t].pc = "rule"
        /\ call[u].op = "registerCategory" /\ call[u].pc = "lock"

====
